---- MODULE Spec2Model ----
(***************************************************************************)
(* Model of the weight-matrix engine of PathKernel (src/src/PathKernel.hpp) *)
(* and of its cache files.  Doubles are modelled as exact rationals         *)
(* <<numerator, denominator>> in lowest terms with a positive denominator.  *)
(***************************************************************************)
EXTENDS Integers, Sequences, FiniteSets, TLC

\* the record kept of the most recent call: the operation, the instance, the
\* arguments, _DIM before the call, the result, and what preceded the call
Call(op, e, arg, old, ret, after) ==
    [op |-> op, e |-> e, arg |-> arg, old |-> old, ret |-> ret, after |-> after]

\* ------------------------------------------------------------------ bounds
MaxDim == 3         \* largest argument given to updateWMat
MaxLen == 2         \* longest sequence given to the kernel operators

\* the PathKernel instances, and the one the sequential runs of Spec use
Eng == {1, 2}

Solo == {1}

\* ------------------------------------------------- double, as a rational
RECURSIVE GCD(_, _)
GCD(a, b) == IF b = 0 THEN a ELSE GCD(b, a % b)

Abs(x) == IF x < 0 THEN -x ELSE x

Max(a, b) == IF a < b THEN b ELSE a

RNorm(n, d) ==
    LET g == GCD(Abs(n), Abs(d))
        s == IF d < 0 THEN -1 ELSE 1
    IN <<(s * n) \div g, (s * d) \div g>>

R(n, d) == RNorm(n, d)

Zero == R(0, 1)
One == R(1, 1)
Two == R(2, 1)

RAdd(a, b) ==
    LET g == GCD(a[2], b[2])
        l == (a[2] \div g) * b[2]
    IN RNorm(a[1] * (l \div a[2]) + b[1] * (l \div b[2]), l)

RMul(a, b) ==
    LET g1 == GCD(Abs(a[1]), b[2])
        g2 == GCD(Abs(b[1]), a[2])
    IN RNorm((a[1] \div g1) * (b[1] \div g2), (a[2] \div g2) * (b[2] \div g1))

RDiv(a, b) == RMul(a, <<b[2], b[1]>>)

RLeq0(a) == a[1] <= 0

RPos(a) == a[1] > 0

\* --------------------------------------------------- program constants
CHV_def == RDiv(R(9, 10), R(3, 1))
CD_def == RDiv(R(11, 10), R(3, 1))

\* step costs handed to the two-parameter constructor
ParamPairs ==
    { <<R(3, 10), R(4, 10)>>, <<R(0, 1), R(4, 10)>>, <<R(3, 10), R(-1, 2)>> }

\* directories handed to folder()
Dirs == {"", "cache"}

\* a directory that does not exist: no file in it can be opened
NoSuchDir == "gone"

\* ------------------------------------------------------------- the table
EmptyMat == [i \in {} |-> i]

\* a resize that clears the table, as assign() would
ResizeClear(w, n) == [i \in 0..(n - 1) |-> [j \in 0..(n - 1) |-> Zero]]

\* std::vector resize of the outer vector and of every row: kept cells keep
\* their value, new cells are value-initialised to 0.0
Resize(w, n) ==
    [i \in 0..(n - 1) |-> [j \in 0..(n - 1) |->
        IF i \in DOMAIN w /\ j \in DOMAIN w[i] THEN w[i][j] ELSE Zero]]

\* an assignment that forgets the mirrored cell
PutUpper(w, i, j, temp) == [w EXCEPT ![i][j] = temp]

\* wmat[i][j]=wmat[j][i]=temp
PutOne(w, i, j, temp) == [w EXCEPT ![i][j] = temp]

PutSym(w, i, j, temp) == [[w EXCEPT ![j][i] = temp] EXCEPT ![i][j] = temp]

initWMat == [DIM |-> 1, wmat |-> PutOne(Resize(EmptyMat, 1), 0, 0, One)]

\* temp=_CHV*wmat[i-1][0]
BorderCell(chv, w, i) == RMul(chv, w[i - 1][0])

\* temp=_CHV*(wmat[i-1][j]+wmat[i][j-1])+_CD*wmat[i-1][j-1]
InnerCell(chv, cd, w, i, j) ==
    RAdd(RMul(chv, RAdd(w[i - 1][j], w[i][j - 1])), RMul(cd, w[i - 1][j - 1]))

\* the diagonal cell without its factor 2
DiagCellOnce(chv, cd, w, i) ==
    RAdd(RMul(chv, w[i - 1][i]), RMul(cd, w[i - 1][i - 1]))

\* the diagonal cell without its _CD term
DiagCellNoCD(chv, cd, w, i) == RMul(RMul(Two, chv), w[i - 1][i])

\* 2*_CHV*wmat[i-1][i]+_CD*wmat[i-1][i-1]
DiagCell(chv, cd, w, i) ==
    RAdd(RMul(RMul(Two, chv), w[i - 1][i]), RMul(cd, w[i - 1][i - 1]))

\* the first loop left out: the new border cells keep the 0 of the resize
BorderSkipped(chv, w, i, dim) == w

\* for(i=old_dim;i<_DIM;i++) wmat[i][0]=wmat[0][i]=temp
RECURSIVE BorderLoop(_, _, _, _)
BorderLoop(chv, w, i, dim) ==
    IF i >= dim THEN w
    ELSE BorderLoop(chv, PutSym(w, i, 0, BorderCell(chv, w, i)), i + 1, dim)

\* the second loop left out: old rows are not continued into the new columns
OldRowsSkipped(chv, cd, w, i, j, old_dim, dim) == w

\* for(i=1;i<old_dim;i++) for(j=old_dim;j<_DIM;j++) wmat[i][j]=wmat[j][i]=temp
RECURSIVE OldRowsLoop(_, _, _, _, _, _, _)
OldRowsLoop(chv, cd, w, i, j, old_dim, dim) ==
    IF i >= old_dim THEN w
    ELSE IF j >= dim THEN OldRowsLoop(chv, cd, w, i + 1, old_dim, old_dim, dim)
    ELSE OldRowsLoop(chv, cd, PutSym(w, i, j, InnerCell(chv, cd, w, i, j)),
                     i, j + 1, old_dim, dim)

\* for(j=i+1;j<_DIM;j++) wmat[i][j]=wmat[j][i]=temp
RECURSIVE NewRowTail(_, _, _, _, _, _)
NewRowTail(chv, cd, w, i, j, dim) ==
    IF j >= dim THEN w
    ELSE NewRowTail(chv, cd, PutSym(w, i, j, InnerCell(chv, cd, w, i, j)),
                    i, j + 1, dim)

\* for(i=old_dim;i<_DIM;i++) { wmat[i][i]=...; for(j=i+1;...) ... }
RECURSIVE NewRowsLoop(_, _, _, _, _)
NewRowsLoop(chv, cd, w, i, dim) ==
    IF i >= dim THEN w
    ELSE NewRowsLoop(chv, cd,
                     NewRowTail(chv, cd, PutOne(w, i, i, DiagCell(chv, cd, w, i)),
                                i, i + 1, dim),
                     i + 1, dim)

\* the three loops of updateWMat, run after the resize
FillNew(chv, cd, w, old_dim, dim) ==
    NewRowsLoop(chv, cd,
        OldRowsLoop(chv, cd, BorderLoop(chv, w, old_dim, dim), 1, old_dim, old_dim, dim),
        old_dim, dim)

\* updateWMat with the guard dim>0 in place of dim>_DIM
updateWMatAnyDim(chv, cd, w, D, dim) ==
    IF dim > 0
    THEN [DIM |-> dim, wmat |-> FillNew(chv, cd, Resize(w, dim), D, dim)]
    ELSE [DIM |-> D, wmat |-> w]

updateWMat(chv, cd, w, D, dim) ==
    IF dim > D
    THEN [DIM |-> dim, wmat |-> FillNew(chv, cd, Resize(w, dim), D, dim)]
    ELSE [DIM |-> D, wmat |-> w]

\* --------------------------------------------- which cells a call reads
\* the cells of a table of dimension D
Cells(D) == (0..(D - 1)) \X (0..(D - 1))

\* wmat[i-1][0]
BorderReads(i) == {<<i - 1, 0>>}

\* wmat[i-1][j], wmat[i][j-1], wmat[i-1][j-1]
InnerReads(i, j) == {<<i - 1, j>>, <<i, j - 1>>, <<i - 1, j - 1>>}

\* wmat[i-1][i], wmat[i-1][i-1]
DiagReads(i) == {<<i - 1, i>>, <<i - 1, i - 1>>}

\* one assignment of updateWMat: x.done are the cells assigned so far, x.bad
\* the cells that were read before they were assigned
Assign(x, reads, writes) == [done |-> x.done \cup writes, bad |-> x.bad \cup (reads \ x.done)]

\* for(i=old_dim;i<_DIM;i++) wmat[i][0]=wmat[0][i]=temp
RECURSIVE BorderOrder(_, _, _)
BorderOrder(x, i, dim) ==
    IF i >= dim THEN x
    ELSE BorderOrder(Assign(x, BorderReads(i), {<<i, 0>>, <<0, i>>}), i + 1, dim)

\* for(i=1;i<old_dim;i++) for(j=old_dim;j<_DIM;j++) wmat[i][j]=wmat[j][i]=temp
RECURSIVE OldRowsOrder(_, _, _, _, _)
OldRowsOrder(x, i, j, old_dim, dim) ==
    IF i >= old_dim THEN x
    ELSE IF j >= dim THEN OldRowsOrder(x, i + 1, old_dim, old_dim, dim)
    ELSE OldRowsOrder(Assign(x, InnerReads(i, j), {<<i, j>>, <<j, i>>}), i, j + 1, old_dim, dim)

\* for(j=i+1;j<_DIM;j++) wmat[i][j]=wmat[j][i]=temp
RECURSIVE NewRowTailOrder(_, _, _, _)
NewRowTailOrder(x, i, j, dim) ==
    IF j >= dim THEN x
    ELSE NewRowTailOrder(Assign(x, InnerReads(i, j), {<<i, j>>, <<j, i>>}), i, j + 1, dim)

\* for(i=old_dim;i<_DIM;i++) { wmat[i][i]=...; for(j=i+1;...) ... }
RECURSIVE NewRowsOrder(_, _, _)
NewRowsOrder(x, i, dim) ==
    IF i >= dim THEN x
    ELSE NewRowsOrder(NewRowTailOrder(Assign(x, DiagReads(i), {<<i, i>>}), i, i + 1, dim),
                      i + 1, dim)

\* updateWMat(dim) on a table of dimension old_dim whose cells are all assigned
updateOrder(old_dim, dim) ==
    IF dim > old_dim
    THEN NewRowsOrder(
             OldRowsOrder(BorderOrder([done |-> Cells(old_dim), bad |-> {}], old_dim, dim),
                          1, old_dim, old_dim, dim),
             old_dim, dim)
    ELSE [done |-> Cells(old_dim), bad |-> {}]

\* the reads of the sum with the mirrored index one too far
PairReadsOffByOne(ls, lt) ==
    UNION { {<<c[1], c[2]>>, <<ls - c[1], lt - c[2]>>} : c \in (0..(ls - 1)) \X (0..(lt - 1)) }

\* wmat[i][j], wmat[ls-i-1][lt-j-1] for every i < ls, j < lt
PairReads(ls, lt) ==
    UNION { {<<c[1], c[2]>>, <<ls - c[1] - 1, lt - c[2] - 1>>} : c \in (0..(ls - 1)) \X (0..(lt - 1)) }

\* wmat[i][i], and wmat[i][j], wmat[ls-i-1][ls-j-1] for every i < j < ls
SelfReads(ls) ==
    {<<i, i>> : i \in 0..(ls - 1)} \cup
    UNION { {<<c[1], c[2]>>, <<ls - c[1] - 1, ls - c[2] - 1>>} :
              c \in {d \in (0..(ls - 1)) \X (0..(ls - 1)) : d[2] > d[1]} }

\* a getWMat that returns the first row only
getWMatFirstRow(w) == [i \in {0} |-> w[0]]

\* std::vector<std::vector<double> > getWMat(): a copy of the table
getWMat(w) == w

\* ------------------------------------------------------------ cache files
\* std::scientific << std::setprecision(10): one digit, ten fractional digits
\* (rounded) and the decimal exponent
SciPrecision == 10

SciDigits == SciPrecision + 1

RECURSIVE Exp10(_, _)
Exp10(n, d) ==
    IF n = 0 THEN 0
    ELSE IF n >= 10 * d THEN 1 + Exp10(n, 10 * d)
    ELSE IF n < d THEN Exp10(10 * n, d) - 1
    ELSE 0

RECURSIVE Pow10(_)
Pow10(k) == IF k <= 0 THEN 1 ELSE 10 * Pow10(k - 1)

\* the first k digits of n/d, for 1 <= n/d < 10
RECURSIVE Digits(_, _, _)
Digits(n, d, k) ==
    IF k = 0 THEN <<>> ELSE <<n \div d>> \o Digits(10 * (n % d), d, k - 1)

\* ten times the remainder left after k digits
RECURSIVE RestAfter(_, _, _)
RestAfter(n, d, k) == IF k = 0 THEN n ELSE RestAfter(10 * (n % d), d, k - 1)

\* add one to the last digit
RECURSIVE Carry(_)
Carry(ds) ==
    IF ds = <<>> THEN <<>>
    ELSE IF ds[Len(ds)] < 9 THEN [ds EXCEPT ![Len(ds)] = @ + 1]
    ELSE Carry(SubSeq(ds, 1, Len(ds) - 1)) \o <<0>>

\* the digits rounded to nearest, and the exponent
SciRound(neg, ds, up, e) ==
    IF ~up THEN [neg |-> neg, mant |-> ds, exp |-> e]
    ELSE IF \A i \in 1..Len(ds) : ds[i] = 9
         THEN [neg |-> neg, mant |-> [i \in 1..Len(ds) |-> IF i = 1 THEN 1 ELSE 0],
               exp |-> e + 1]
         ELSE [neg |-> neg, mant |-> Carry(ds), exp |-> e]

SciScaled(neg, n, d, e) ==
    SciRound(neg, Digits(n, d, SciDigits), 2 * RestAfter(n, d, SciDigits) >= 10 * d, e)

SciExp(neg, n, d, e) ==
    SciScaled(neg, IF e < 0 THEN n * Pow10(-e) ELSE n, IF e > 0 THEN d * Pow10(e) ELSE d, e)

Sci(x) == SciExp(x[1] < 0, Abs(x[1]), x[2], Exp10(Abs(x[1]), x[2]))

\* wDir << "/wmat_CHV_" << _CHV << "_CD_" << _CD << ".bin"
FName(dir, chv, cd) == <<dir, "/wmat_CHV_", Sci(chv), "_CD_", Sci(cd), ".bin">>

\* ofs.write(&_DIM); then every wmat[i][j], i outer, j inner
RowMajor(w, D) == [p \in 1..(D * D) |-> w[(p - 1) \div D][(p - 1) % D]]

\* a record without its last row and column of cells
FileImageShort(w, D) == <<D>> \o RowMajor(w, D - 1)

FileImage(w, D) == <<D>> \o RowMajor(w, D)

\* saveWMat that does not ask for the write permission
saveWMatNoPerm(chv, cd, w, D, dir, ww, fs) ==
    [ret |-> dir # "" /\ (FName(dir, chv, cd) \in DOMAIN fs => D > fs[FName(dir, chv, cd)][1]),
     files |-> IF dir # "" /\ (FName(dir, chv, cd) \in DOMAIN fs => D > fs[FName(dir, chv, cd)][1])
               THEN [f \in DOMAIN fs \cup {FName(dir, chv, cd)} |->
                        IF f = FName(dir, chv, cd) THEN FileImage(w, D) ELSE fs[f]]
               ELSE fs]

\* saveWMat that does not compare _DIM with the stored dimension
saveWMatAlways(chv, cd, w, D, dir, ww, fs) ==
    [ret |-> dir # "" /\ ww,
     files |-> IF dir # "" /\ ww /\ dir # NoSuchDir
               THEN [f \in DOMAIN fs \cup {FName(dir, chv, cd)} |->
                        IF f = FName(dir, chv, cd) THEN FileImage(w, D) ELSE fs[f]]
               ELSE fs]

\* saveWMat(); in a directory that does not exist neither stream opens, and
\* the writes to the unopened ofstream are lost
saveWMat(chv, cd, w, D, dir, ww, fs) ==
    LET fname == FName(dir, chv, cd)
        save == IF dir # "" /\ ww
                THEN IF fname \in DOMAIN fs THEN D > fs[fname][1] ELSE TRUE
                ELSE FALSE
    IN [ret |-> save,
        files |-> IF save /\ dir # NoSuchDir
                  THEN [f \in DOMAIN fs \cup {fname} |->
                           IF f = fname THEN FileImage(w, D) ELSE fs[f]]
                  ELSE fs]

\* the reads of loadWMat with rows of N-1 cells in place of N
ReadCellsShortRows(w, f, N) ==
    [i \in 0..(N - 1) |-> [j \in 0..(N - 1) |->
        IF i * (N - 1) + j + 2 <= Len(f) THEN f[i * (N - 1) + j + 2] ELSE w[i][j]]]

\* ifs.read(&wmat[i][j]) for i, j in row-major order; a read past the end of
\* the file leaves the cell as the resize left it
ReadCells(w, f, N) ==
    [i \in 0..(N - 1) |-> [j \in 0..(N - 1) |->
        IF i * N + j + 2 <= Len(f) THEN f[i * N + j + 2] ELSE w[i][j]]]

\* loadWMat with the guard N!=_DIM in place of N>_DIM
loadWMatAnySize(chv, cd, w, D, dir, fs) ==
    IF dir # "" /\ FName(dir, chv, cd) \in DOMAIN fs /\ fs[FName(dir, chv, cd)][1] # D
    THEN [ret |-> TRUE, DIM |-> fs[FName(dir, chv, cd)][1],
          wmat |-> ReadCells(Resize(w, fs[FName(dir, chv, cd)][1]), fs[FName(dir, chv, cd)],
                             fs[FName(dir, chv, cd)][1])]
    ELSE [ret |-> FALSE, DIM |-> D, wmat |-> w]

\* loadWMat with the guard N>=_DIM in place of N>_DIM
loadWMatSameSize(chv, cd, w, D, dir, fs) ==
    IF dir # "" /\ FName(dir, chv, cd) \in DOMAIN fs /\ fs[FName(dir, chv, cd)][1] >= D
    THEN [ret |-> TRUE, DIM |-> fs[FName(dir, chv, cd)][1],
          wmat |-> ReadCells(Resize(w, fs[FName(dir, chv, cd)][1]), fs[FName(dir, chv, cd)],
                             fs[FName(dir, chv, cd)][1])]
    ELSE [ret |-> FALSE, DIM |-> D, wmat |-> w]

\* loadWMat that takes the stored dimension but reads no cell
loadWMatNoRead(chv, cd, w, D, dir, fs) ==
    IF dir # "" /\ FName(dir, chv, cd) \in DOMAIN fs /\ fs[FName(dir, chv, cd)][1] > D
    THEN [ret |-> TRUE, DIM |-> fs[FName(dir, chv, cd)][1],
          wmat |-> Resize(w, fs[FName(dir, chv, cd)][1])]
    ELSE [ret |-> FALSE, DIM |-> D, wmat |-> w]

loadWMat(chv, cd, w, D, dir, fs) ==
    LET fname == FName(dir, chv, cd)
        open == dir # "" /\ fname \in DOMAIN fs
        N == fs[fname][1]
    IN IF open /\ N > D
       THEN [ret |-> TRUE, DIM |-> N, wmat |-> ReadCells(Resize(w, N), fs[fname], N)]
       ELSE [ret |-> FALSE, DIM |-> D, wmat |-> w]

\* ------------------------------------------------------ kernel evaluation
\* symbols are the indices of a SymKernel over SymN symbols
SymN == 2

Sym == 0..(SymN - 1)

\* SymKernel(N): the identity
SKM == [a \in Sym |-> [b \in Sym |-> IF a = b THEN One ELSE Zero]]

\* SymKernel(skm) built from a symmetric matrix whose diagonal is not constant
SKD == [a \in Sym |-> [b \in Sym |-> IF a = b THEN R(a + 1, 1) ELSE R(1, 2)]]

\* a cross matrix whose rows all take the first symbol of s
skCrossFirstRow(sk, s, t) ==
    [i \in 0..(Len(s) - 1) |-> [j \in 0..(Len(t) - 1) |-> sk[s[1]][t[j + 1]]]]

\* this->_sk(s,t,skm), sk the ground kernel's matrix
skCross(sk, s, t) ==
    [i \in 0..(Len(s) - 1) |-> [j \in 0..(Len(t) - 1) |-> sk[s[i + 1]][t[j + 1]]]]

\* this->_sk(s,skm)
skSelf(sk, s) ==
    [i \in 0..(Len(s) - 1) |-> [j \in 0..(Len(s) - 1) |-> sk[s[i + 1]][s[j + 1]]]]

\* the term of the sum without the mirrored weight
PairTermForward(skm, w, ls, lt, i, j) == RMul(skm[i][j], w[i][j])

\* skm[i][j]*(wmat[i][j]+wmat[ls-i-1][lt-j-1])/2
PairTerm(skm, w, ls, lt, i, j) ==
    RDiv(RMul(skm[i][j], RAdd(w[i][j], w[ls - i - 1][lt - j - 1])), Two)

\* for(i=0;i<ls;i++) for(j=0;j<lt;j++) k+=...
RECURSIVE PairSum(_, _, _, _, _, _, _)
PairSum(skm, w, ls, lt, i, j, k) ==
    IF i >= ls THEN k
    ELSE IF j >= lt THEN PairSum(skm, w, ls, lt, i + 1, 0, k)
    ELSE PairSum(skm, w, ls, lt, i, j + 1, RAdd(k, PairTerm(skm, w, ls, lt, i, j)))

\* operator()(s,t,k) past the guard; u is the table after updateWMat
PairwiseOn(u, sk, s, t) ==
    [DIM |-> u.DIM, wmat |-> u.wmat,
     k |-> PairSum(skCross(sk, s, t), u.wmat, Len(s), Len(t), 0, 0, Zero)]

\* operator()(s,t,k) without the return on an empty sequence
pairwiseNoGuard(chv, cd, w, D, sk, s, t, k) ==
    PairwiseOn(updateWMat(chv, cd, w, D, Max(Len(s), Len(t))), sk, s, t)

\* operator()(s,t,k)
pairwise(chv, cd, w, D, sk, s, t, k) ==
    IF Len(s) = 0 \/ Len(t) = 0
    THEN [DIM |-> D, wmat |-> w, k |-> k]
    ELSE PairwiseOn(updateWMat(chv, cd, w, D, Max(Len(s), Len(t))), sk, s, t)

\* for(j=i+1;j<ls;j++) k+=2*skm[i][j]*(wmat[i][j]+wmat[ls-i-1][ls-j-1])/2
RECURSIVE SelfRow(_, _, _, _, _, _)
SelfRow(skm, w, ls, i, j, k) ==
    IF j >= ls THEN k
    ELSE SelfRow(skm, w, ls, i, j + 1,
                 RAdd(k, RDiv(RMul(RMul(Two, skm[i][j]),
                                   RAdd(w[i][j], w[ls - i - 1][ls - j - 1])), Two)))

\* for(i=0;i<ls;i++) { k+=skm[i][i]*wmat[i][i]; ... }
RECURSIVE SelfSum(_, _, _, _, _)
SelfSum(skm, w, ls, i, k) ==
    IF i >= ls THEN k
    ELSE SelfSum(skm, w, ls, i + 1,
                 SelfRow(skm, w, ls, i, i + 1, RAdd(k, RMul(skm[i][i], w[i][i]))))

\* operator()(s,k) past the guard; u is the table after updateWMat
SelfOn(u, sk, s) ==
    [DIM |-> u.DIM, wmat |-> u.wmat,
     k |-> SelfSum(skSelf(sk, s), u.wmat, Len(s), 0, Zero)]

\* operator()(s,k)
self(chv, cd, w, D, sk, s, k) ==
    IF Len(s) = 0
    THEN [DIM |-> D, wmat |-> w, k |-> k]
    ELSE SelfOn(updateWMat(chv, cd, w, D, Len(s)), sk, s)

\* ------------------------------------------------------ the batched forms
ErrEmpty == "Empty sequence vector."

\* std::vector::resize(n): the first elements are kept, new ones are
\* value-initialised (z: 0.0 for a double, the empty vector for a row)
VecResize(v, n, z) == [i \in 0..(n - 1) |-> IF i \in DOMAIN v THEN v[i] ELSE z]

\* the state a batched form threads through its calls: the table and the output
Thread(D, w, km) == [DIM |-> D, wmat |-> w, km |-> km]

\* (*this)(s,t,km[i][j])
CellPairwise(chv, cd, sk, x, s, t, i, j) ==
    LET r == pairwise(chv, cd, x.wmat, x.DIM, sk, s, t, x.km[i][j])
    IN Thread(r.DIM, r.wmat, [x.km EXCEPT ![i][j] = r.k])

\* (*this)(s,km[i][i])
CellSelf(chv, cd, sk, x, s, i) ==
    LET r == self(chv, cd, x.wmat, x.DIM, sk, s, x.km[i][i])
    IN Thread(r.DIM, r.wmat, [x.km EXCEPT ![i][i] = r.k])

\* for(j=0;j<ltl;j++) (*this)(slist[i],tlist[j],km[i][j])
RECURSIVE CrossRow(_, _, _, _, _, _, _, _)
CrossRow(chv, cd, sk, x, slist, tlist, i, j) ==
    IF j >= Len(tlist) THEN x
    ELSE CrossRow(chv, cd, sk,
                  CellPairwise(chv, cd, sk, x, slist[i + 1], tlist[j + 1], i, j),
                  slist, tlist, i, j + 1)

\* for(i=0;i<lsl;i++) { km[i].resize(ltl); ... }
RECURSIVE CrossRows(_, _, _, _, _, _, _)
CrossRows(chv, cd, sk, x, slist, tlist, i) ==
    IF i >= Len(slist) THEN x
    ELSE CrossRows(chv, cd, sk,
                   CrossRow(chv, cd, sk,
                            [x EXCEPT !.km[i] = VecResize(x.km[i], Len(tlist), Zero)],
                            slist, tlist, i, 0),
                   slist, tlist, i + 1)

\* operator()(slist,tlist,km)
pairwiseMatrix(chv, cd, w, D, sk, slist, tlist, km) ==
    IF Len(slist) = 0 \/ Len(tlist) = 0
    THEN [err |-> ErrEmpty, x |-> Thread(D, w, km)]
    ELSE [err |-> "",
          x |-> CrossRows(chv, cd, sk, Thread(D, w, VecResize(km, Len(slist), EmptyMat)),
                          slist, tlist, 0)]

\* (*this)(slist[i],slist[j],km[i][j]); km[j][i]=km[i][j]
CellMirror(x, i, j) == [x EXCEPT !.km[j][i] = x.km[i][j]]

\* for(j=0;j<i;j++) { ... }
RECURSIVE LowerRow(_, _, _, _, _, _, _)
LowerRow(chv, cd, sk, x, slist, i, j) ==
    IF j >= i THEN x
    ELSE LowerRow(chv, cd, sk,
                  CellMirror(CellPairwise(chv, cd, sk, x, slist[i + 1], slist[j + 1], i, j),
                             i, j),
                  slist, i, j + 1)

\* for(i=0;i<lsl;i++) { km[i].resize(lsl); (*this)(slist[i],km[i][i]); ... }
RECURSIVE LowerRows(_, _, _, _, _, _)
LowerRows(chv, cd, sk, x, slist, i) ==
    IF i >= Len(slist) THEN x
    ELSE LowerRows(chv, cd, sk,
                   LowerRow(chv, cd, sk,
                            CellSelf(chv, cd, sk,
                                     [x EXCEPT !.km[i] = VecResize(x.km[i], Len(slist), Zero)],
                                     slist[i + 1], i),
                            slist, i, 0),
                   slist, i + 1)

\* operator()(slist,km): km is resized before the list is found empty
selfMatrix(chv, cd, w, D, sk, slist, km) ==
    IF Len(slist) = 0
    THEN [err |-> ErrEmpty, x |-> Thread(D, w, VecResize(km, Len(slist), EmptyMat))]
    ELSE [err |-> "",
          x |-> LowerRows(chv, cd, sk, Thread(D, w, VecResize(km, Len(slist), EmptyMat)),
                          slist, 0)]

\* (*this)(slist[i],kv[i])
CellVector(chv, cd, sk, x, s, i) ==
    LET r == self(chv, cd, x.wmat, x.DIM, sk, s, x.km[i])
    IN Thread(r.DIM, r.wmat, [x.km EXCEPT ![i] = r.k])

\* for(i=0;i<lsl;i++) (*this)(slist[i],kv[i])
RECURSIVE VectorLoop(_, _, _, _, _, _)
VectorLoop(chv, cd, sk, x, slist, i) ==
    IF i >= Len(slist) THEN x
    ELSE VectorLoop(chv, cd, sk, CellVector(chv, cd, sk, x, slist[i + 1], i), slist, i + 1)

\* operator()(slist,kv): no check of the list, nothing is thrown
selfVector(chv, cd, w, D, sk, slist, kv) ==
    [err |-> "",
     x |-> VectorLoop(chv, cd, sk, Thread(D, w, VecResize(kv, Len(slist), Zero)), slist, 0)]

\* ------------------------------------------- RbfKernel, a ground kernel
RbfLen == 2

ErrNoVector == "Input set doesn't contain any vector."

ErrEmptyVector == "Input vector is empty."

ErrUnequal == "Input vectors do not have equal size."

\* xlist[0] on an empty std::vector is undefined: the read faults, or it gives
\* some size
Fault == -1

ErrFault == "undefined: xlist[0] of an empty list"

\* size_t dim=xlist[0].size()
FirstSize(xlist) == IF Len(xlist) = 0 THEN Fault..RbfLen ELSE {Len(xlist[1])}

\* operator()(x,k): 1 unless x holds zeros only
rbfSelf(x, k) ==
    IF Len(x) = 0 THEN [err |-> ErrEmptyVector, k |-> k]
    ELSE [err |-> "", k |-> IF \E i \in 1..Len(x) : x[i] # 0 THEN 1 ELSE 0]

\* for(i=0;i<lxl;i++) { if(xlist[i].size()==0) throw; if(xlist[i].size()!=dim) throw; }
RECURSIVE RbfSizeLoop(_, _, _)
RbfSizeLoop(xlist, dim, i) ==
    IF i >= Len(xlist) THEN ""
    ELSE IF Len(xlist[i + 1]) = 0 THEN ErrEmptyVector
    ELSE IF Len(xlist[i + 1]) # dim THEN ErrUnequal
    ELSE RbfSizeLoop(xlist, dim, i + 1)

\* for(i=0;i<lxl;i++) (*this)(xlist[i],kv[i])
RECURSIVE RbfVectorLoop(_, _, _)
RbfVectorLoop(xlist, kv, i) ==
    IF i >= Len(xlist) THEN [err |-> "", kv |-> kv]
    ELSE LET r == rbfSelf(xlist[i + 1], kv[i])
         IN IF r.err # "" THEN [err |-> r.err, kv |-> kv]
            ELSE RbfVectorLoop(xlist, [kv EXCEPT ![i] = r.k], i + 1)

\* operator()(xlist,kv); dim is what the read of xlist[0].size() gave
rbfVector(xlist, kv, dim) ==
    IF Len(xlist) # 0 THEN [err |-> ErrNoVector, kv |-> kv]
    ELSE IF dim = Fault THEN [err |-> ErrFault, kv |-> kv]
    ELSE IF RbfSizeLoop(xlist, dim, 0) # "" THEN [err |-> RbfSizeLoop(xlist, dim, 0), kv |-> kv]
    ELSE RbfVectorLoop(xlist, VecResize(kv, Len(xlist), 0), 0)

\* ------------------------------- saveWMat and loadWMat, statement by statement
\* where a call stands (pc), what its read of the stored dimension gave (found:
\* the file opened; N; failed: the read got nothing), and what the latest call
\* did: lost is the dimension of a whole record of larger dimension that the
\* save truncated (0: none), partial says that the load installed a table from
\* a file with fewer than N x N cells
IoAt(pc, found, N, failed, lost, partial) ==
    [pc |-> pc, found |-> found, N |-> N, failed |-> failed, lost |-> lost, partial |-> partial]

IoIdle == IoAt("idle", FALSE, 0, FALSE, 0, FALSE)

\* size_t N; ifs.read((char*)&N,sizeof(N)): on a file without its first entry
\* the read fails and N keeps the value it was never given
ReadN(f) == IF Len(f) >= 1 THEN {f[1]} ELSE 0..MaxDim

\* if(wDir.size()>0 && wW)
SaveAsked(dir, ww) == dir # "" /\ ww

\* a decision that does not look at the stored dimension
SaveDecidesAlways(D, found, N) == TRUE

\* if(ifs.is_open()) { if(_DIM>N) save=true; } else save=true;
SaveDecides(D, found, N) == IF found THEN D > N ELSE TRUE

\* if(N>_DIM)
LoadDecides(D, N) == N > D

\* a write of vals at position p of a file: what lies between the old end and
\* p reads as zeros
WriteAt(f, p, vals) ==
    [q \in 1..Max(Len(f), p + Len(vals) - 1) |->
        IF q >= p /\ q < p + Len(vals) THEN vals[q - p + 1]
        ELSE IF q <= Len(f) THEN f[q]
        ELSE IF q = 1 THEN 0 ELSE Zero]

\* a file holds a whole record: its dimension and that many rows and columns
WholeRecord(f) == Len(f) >= 1 /\ Len(f) = 1 + f[1] * f[1]

\* -------------------------------------------------------------- the state
VARIABLES
    st,      \* per instance: "none" (not constructed), "failed" (the constructor threw), "ok"
    CHV,     \* _CHV
    CD,      \* _CD
    DIM,     \* _DIM
    wmat,    \* wmat
    wDir,    \* wDir
    wW,      \* wW
    SK,      \* _sk: the matrix of the ground kernel the instance refers to
    snap,    \* the caller's variable that keeps a table getWMat returned (empty: none kept)
    io,      \* per instance: where its saveWMat()/loadWMat() stands when the file steps interleave
    files,   \* the cache files: file name -> <<N, cells in row-major order>>
    last,    \* the most recent call: operation, instance, arguments, _DIM before it, result
    pure     \* per instance: only updateWMat has been called on it since its construction

vars == <<st, CHV, CD, DIM, wmat, wDir, wW, SK, snap, io, files, last, pure>>

NoFiles == [f \in {} |-> <<>>]

\* one input sequence of every length up to MaxLen
SeqOfLen(n) == [i \in 1..n |-> i % SymN]

Inputs == {SeqOfLen(n) : n \in 0..MaxLen}

\* what the caller's output variable holds before a call
KBefore == R(-1, 1)

ErrCHV == "Parameter \"CHV\" is not positive."
ErrCD == "Parameter \"CD\" is not positive."

Init ==
    /\ st = [e \in Eng |-> "none"]
    /\ CHV = [e \in Eng |-> Zero]
    /\ CD = [e \in Eng |-> Zero]
    /\ DIM = [e \in Eng |-> 0]
    /\ wmat = [e \in Eng |-> EmptyMat]
    /\ wDir = [e \in Eng |-> ""]
    /\ wW = [e \in Eng |-> FALSE]
    /\ SK = [e \in Eng |-> SKM]
    /\ snap = EmptyMat
    /\ io = [e \in Eng |-> IoIdle]
    /\ files = NoFiles
    /\ last = Call("none", 0, <<>>, 0, <<>>, "")
    /\ pure = [e \in Eng |-> FALSE]

\* a constructor that checks CHV only
CtorThrowsCHV(chv, cd) == IF RLeq0(chv) THEN ErrCHV ELSE ""

\* which check of the two-parameter constructor throws, if any
CtorThrows(chv, cd) ==
    IF RLeq0(chv) THEN ErrCHV ELSE IF RLeq0(cd) THEN ErrCD ELSE ""

\* PathKernel(sk,CHV,CD)
Construct(e, sk, chv, cd) ==
    /\ st[e] # "ok"
    /\ \E err \in {CtorThrows(chv, cd)} :
          IF err # ""
          THEN /\ st' = [st EXCEPT ![e] = "failed"]
               /\ last' = Call("construct", e, <<chv, cd>>, 0, err, "")
               /\ UNCHANGED <<CHV, CD, DIM, wmat, wDir, wW, SK, pure>>
          ELSE /\ st' = [st EXCEPT ![e] = "ok"]
               /\ SK' = [SK EXCEPT ![e] = sk]
               /\ CHV' = [CHV EXCEPT ![e] = chv]
               /\ CD' = [CD EXCEPT ![e] = cd]
               /\ DIM' = [DIM EXCEPT ![e] = initWMat.DIM]
               /\ wmat' = [wmat EXCEPT ![e] = initWMat.wmat]
               /\ wDir' = [wDir EXCEPT ![e] = ""]
               /\ wW' = [wW EXCEPT ![e] = FALSE]
               /\ pure' = [pure EXCEPT ![e] = TRUE]
               /\ last' = Call("construct", e, <<chv, cd>>, 0, "ok", "")
    /\ UNCHANGED <<snap, io, files>>

\* PathKernel(sk)
ConstructDefault(e, sk) ==
    /\ st[e] # "ok"
    /\ st' = [st EXCEPT ![e] = "ok"]
    /\ SK' = [SK EXCEPT ![e] = sk]
    /\ CHV' = [CHV EXCEPT ![e] = CHV_def]
    /\ CD' = [CD EXCEPT ![e] = CD_def]
    /\ DIM' = [DIM EXCEPT ![e] = initWMat.DIM]
    /\ wmat' = [wmat EXCEPT ![e] = initWMat.wmat]
    /\ wDir' = [wDir EXCEPT ![e] = ""]
    /\ wW' = [wW EXCEPT ![e] = FALSE]
    /\ pure' = [pure EXCEPT ![e] = TRUE]
    /\ last' = Call("default", e, <<>>, 0, "ok", "")
    /\ UNCHANGED <<snap, io, files>>

\* updateWMat(dim)
Extend(e, dim) ==
    /\ st[e] = "ok"
    /\ \E u \in {updateWMat(CHV[e], CD[e], wmat[e], DIM[e], dim)} :
          /\ DIM' = [DIM EXCEPT ![e] = u.DIM]
          /\ wmat' = [wmat EXCEPT ![e] = u.wmat]
    /\ last' = Call("extend", e, <<dim>>, DIM[e], <<>>, "")
    /\ UNCHANGED <<st, CHV, CD, wDir, wW, SK, snap, io, files, pure>>

\* what the call before a kernel evaluation was: a loadWMat() of the same
\* instance that installed a table, or anything else
AfterLoad(e) ==
    IF last.op = "load" /\ last.e = e /\ last.ret THEN "load true" ELSE ""

\* operator()(s,t,k)
Pairwise(e, s, t) ==
    /\ st[e] = "ok"
    /\ \E r \in {pairwise(CHV[e], CD[e], wmat[e], DIM[e], SK[e], s, t, KBefore)} :
          /\ DIM' = [DIM EXCEPT ![e] = r.DIM]
          /\ wmat' = [wmat EXCEPT ![e] = r.wmat]
          /\ last' = Call("pairwise", e, <<s, t>>, DIM[e], r.k, AfterLoad(e))
    /\ pure' = [pure EXCEPT ![e] = FALSE]
    /\ UNCHANGED <<st, CHV, CD, wDir, wW, SK, snap, io, files>>

\* operator()(s,k)
Self(e, s) ==
    /\ st[e] = "ok"
    /\ \E r \in {self(CHV[e], CD[e], wmat[e], DIM[e], SK[e], s, KBefore)} :
          /\ DIM' = [DIM EXCEPT ![e] = r.DIM]
          /\ wmat' = [wmat EXCEPT ![e] = r.wmat]
          /\ last' = Call("self", e, <<s>>, DIM[e], r.k, "")
    /\ pure' = [pure EXCEPT ![e] = FALSE]
    /\ UNCHANGED <<st, CHV, CD, wDir, wW, SK, snap, io, files>>

\* getWMat(); the caller keeps the returned table in a variable, or drops it
GetWMat(e, keep) ==
    /\ st[e] = "ok"
    /\ \E r \in {getWMat(wmat[e])} :
          /\ last' = Call("getWMat", e, <<keep>>, DIM[e], r, "")
          /\ snap' = IF keep THEN r ELSE snap
    /\ pure' = [pure EXCEPT ![e] = FALSE]
    /\ UNCHANGED <<st, CHV, CD, DIM, wmat, wDir, wW, SK, io, files>>

\* folder(f,w)
Folder(e, f, w) ==
    /\ st[e] = "ok"
    /\ wDir' = [wDir EXCEPT ![e] = f]
    /\ wW' = [wW EXCEPT ![e] = w]
    /\ last' = Call("folder", e, <<f, w>>, DIM[e], <<>>, "")
    /\ pure' = [pure EXCEPT ![e] = FALSE]
    /\ UNCHANGED <<st, CHV, CD, DIM, wmat, SK, snap, io, files>>

\* the file an instance addresses, and the dimension stored in it (0: no file)
FileOf(e) == FName(wDir[e], CHV[e], CD[e])

StoredDim(e) == IF FileOf(e) \in DOMAIN files THEN files[FileOf(e)][1] ELSE 0

\* saveWMat(); the record keeps the dimension the file held before the call
Save(e) ==
    /\ st[e] = "ok"
    /\ \E r \in {saveWMat(CHV[e], CD[e], wmat[e], DIM[e], wDir[e], wW[e], files)} :
          /\ files' = r.files
          /\ last' = Call("save", e, <<StoredDim(e)>>, DIM[e], r.ret, "")
    /\ pure' = [pure EXCEPT ![e] = FALSE]
    /\ UNCHANGED <<st, CHV, CD, DIM, wmat, wDir, wW, SK, snap, io>>

\* what the call before a loadWMat() was: a saveWMat() of the same instance
\* and its result, a saveWMat() of another instance that wrote the file this
\* one addresses, or anything else
Before(e) ==
    IF last.op = "save" /\ last.e = e
    THEN IF last.ret THEN "save true" ELSE "save false"
    ELSE IF last.op = "save" /\ last.ret /\ FileOf(last.e) = FileOf(e)
         THEN "peer save true"
         ELSE "other"

\* loadWMat()
Load(e) ==
    /\ st[e] = "ok"
    /\ \E r \in {loadWMat(CHV[e], CD[e], wmat[e], DIM[e], wDir[e], files)} :
          /\ DIM' = [DIM EXCEPT ![e] = r.DIM]
          /\ wmat' = [wmat EXCEPT ![e] = r.wmat]
          /\ last' = Call("load", e, <<>>, DIM[e], r.ret, Before(e))
    /\ pure' = [pure EXCEPT ![e] = FALSE]
    /\ UNCHANGED <<st, CHV, CD, wDir, wW, SK, snap, io, files>>

\* the result of a batched call: what was thrown, if anything, and the output
Out(r) == <<r.err, r.x.km>>

Thrown(ret) == ret[1]

Output(ret) == ret[2]

\* operator()(slist,tlist,km), km holding km0 before the call
PairwiseMatrix(e, slist, tlist, km0) ==
    /\ st[e] = "ok"
    /\ \E r \in {pairwiseMatrix(CHV[e], CD[e], wmat[e], DIM[e], SK[e], slist, tlist, km0)} :
          /\ DIM' = [DIM EXCEPT ![e] = r.x.DIM]
          /\ wmat' = [wmat EXCEPT ![e] = r.x.wmat]
          /\ last' = Call("pairwiseMatrix", e, <<slist, tlist, km0>>, DIM[e], Out(r), "")
    /\ pure' = [pure EXCEPT ![e] = FALSE]
    /\ UNCHANGED <<st, CHV, CD, wDir, wW, SK, snap, io, files>>

\* operator()(slist,km), km holding km0 before the call
SelfMatrix(e, slist, km0) ==
    /\ st[e] = "ok"
    /\ \E r \in {selfMatrix(CHV[e], CD[e], wmat[e], DIM[e], SK[e], slist, km0)} :
          /\ DIM' = [DIM EXCEPT ![e] = r.x.DIM]
          /\ wmat' = [wmat EXCEPT ![e] = r.x.wmat]
          /\ last' = Call("selfMatrix", e, <<slist, km0>>, DIM[e], Out(r), "")
    /\ pure' = [pure EXCEPT ![e] = FALSE]
    /\ UNCHANGED <<st, CHV, CD, wDir, wW, SK, snap, io, files>>

\* operator()(slist,kv), kv holding kv0 before the call
SelfVector(e, slist, kv0) ==
    /\ st[e] = "ok"
    /\ \E r \in {selfVector(CHV[e], CD[e], wmat[e], DIM[e], SK[e], slist, kv0)} :
          /\ DIM' = [DIM EXCEPT ![e] = r.x.DIM]
          /\ wmat' = [wmat EXCEPT ![e] = r.x.wmat]
          /\ last' = Call("selfVector", e, <<slist, kv0>>, DIM[e], Out(r), "")
    /\ pure' = [pure EXCEPT ![e] = FALSE]
    /\ UNCHANGED <<st, CHV, CD, wDir, wW, SK, snap, io, files>>

\* the instance goes out of scope; a later construction starts a new one
Destroy(e) ==
    /\ st[e] = "ok"
    /\ st' = [st EXCEPT ![e] = "none"]
    /\ CHV' = [CHV EXCEPT ![e] = Zero]
    /\ CD' = [CD EXCEPT ![e] = Zero]
    /\ DIM' = [DIM EXCEPT ![e] = 0]
    /\ wmat' = [wmat EXCEPT ![e] = EmptyMat]
    /\ wDir' = [wDir EXCEPT ![e] = ""]
    /\ wW' = [wW EXCEPT ![e] = FALSE]
    /\ SK' = [SK EXCEPT ![e] = SKM]
    /\ pure' = [pure EXCEPT ![e] = FALSE]
    /\ last' = Call("destroy", e, <<>>, DIM[e], <<>>, "")
    /\ UNCHANGED <<snap, io, files>>

Next ==
    \/ \E e \in Solo, p \in ParamPairs : Construct(e, SKM, p[1], p[2])
    \/ \E e \in Solo : ConstructDefault(e, SKM)
    \/ \E e \in Solo, dim \in 0..MaxDim : Extend(e, dim)
    \/ \E e \in Solo, s \in Inputs, t \in Inputs : Pairwise(e, s, t)
    \/ \E e \in Solo, s \in Inputs : Self(e, s)
    \/ \E e \in Solo : GetWMat(e, FALSE)
    \/ \E e \in Solo, f \in Dirs, w \in BOOLEAN : Folder(e, f, w)
    \/ \E e \in Solo : Save(e)
    \/ \E e \in Solo : Load(e)
    \/ \E e \in Solo : Destroy(e)

Spec == Init /\ [][Next]_vars

\* ------------------------------------------- instances sharing a directory
\* the step costs the constructor accepts
GoodPairs == {p \in ParamPairs : RPos(p[1]) /\ RPos(p[2])}

\* the instances live side by side and every call runs to its end before the
\* next one starts
NextShared ==
    \/ \E e \in Eng, p \in GoodPairs : Construct(e, SKM, p[1], p[2])
    \/ \E e \in Eng : ConstructDefault(e, SKM)
    \/ \E e \in Eng, dim \in 1..MaxDim : Extend(e, dim)
    \/ \E e \in Eng, f \in Dirs \ {""}, w \in BOOLEAN : Folder(e, f, w)
    \/ \E e \in Eng : Save(e)
    \/ \E e \in Eng : Load(e)

SpecShared == Init /\ [][NextShared]_vars

\* ------------------------------------------------------ unreliable files
\* a cache file loses its end (a write cut short, a damaged disk): the stored
\* dimension stays, n - 1 of the cells are left
Truncate(f, n) ==
    /\ f \in DOMAIN files
    /\ n < Len(files[f])
    /\ files' = [files EXCEPT ![f] = SubSeq(files[f], 1, n)]
    /\ last' = Call("truncate", 0, <<n>>, 0, <<>>, "")
    /\ UNCHANGED <<st, CHV, CD, DIM, wmat, wDir, wW, SK, snap, io, pure>>

\* one instance after the other, over a directory that exists and one that
\* does not, with files that may be cut short
NextIO ==
    \/ \E e \in Solo, p \in GoodPairs : Construct(e, SKM, p[1], p[2])
    \/ \E e \in Solo, dim \in 1..MaxDim : Extend(e, dim)
    \/ \E e \in Solo, f \in (Dirs \ {""}) \cup {NoSuchDir}, w \in BOOLEAN : Folder(e, f, w)
    \/ \E e \in Solo : Save(e)
    \/ \E e \in Solo : Load(e)
    \/ \E f \in DOMAIN files, n \in 1..(MaxDim * MaxDim) : Truncate(f, n)
    \/ \E e \in Solo : Destroy(e)

SpecIO == Init /\ [][NextIO]_vars

\* ------------------------------------------------------- kept snapshots
\* one instance after the other; the caller keeps every table getWMat returns
NextSnap ==
    \/ \E e \in Solo, p \in GoodPairs : Construct(e, SKM, p[1], p[2])
    \/ \E e \in Solo, dim \in 1..MaxDim : Extend(e, dim)
    \/ \E e \in Solo : GetWMat(e, TRUE)
    \/ \E e \in Solo, f \in Dirs \ {""}, w \in BOOLEAN : Folder(e, f, w)
    \/ \E e \in Solo : Save(e)
    \/ \E e \in Solo : Load(e)
    \/ \E e \in Solo : Destroy(e)

SpecSnap == Init /\ [][NextSnap]_vars

\* ------------------------------------------------ the RbfKernel calls
\* the input vectors and lists of vectors
RbfVectors == UNION { [1..n -> {0, 1}] : n \in 0..RbfLen }

RbfLists == UNION { [1..n -> RbfVectors] : n \in 0..RbfLen }

\* what the caller's output vector holds before a call
RbfKvBefore == {<<>>, [i \in 0..1 |-> 7]}

\* operator()(x,k), k holding k0 before the call
RbfSelf(x, k0) ==
    /\ \E r \in {rbfSelf(x, k0)} : last' = Call("rbfSelf", 0, <<x>>, k0, <<r.err, r.k>>, "")
    /\ UNCHANGED <<st, CHV, CD, DIM, wmat, wDir, wW, SK, snap, io, files, pure>>

\* operator()(xlist,kv), kv holding kv0 before the call
RbfVector(xlist, kv0) ==
    /\ \E dim \in FirstSize(xlist) : \E r \in {rbfVector(xlist, kv0, dim)} :
          last' = Call("rbfVector", 0, <<xlist>>, kv0, <<r.err, r.kv>>, "")
    /\ UNCHANGED <<st, CHV, CD, DIM, wmat, wDir, wW, SK, snap, io, files, pure>>

NextRbf ==
    \/ \E x \in RbfVectors, k0 \in {0, 7} : RbfSelf(x, k0)
    \/ \E xlist \in RbfLists, kv0 \in RbfKvBefore : RbfVector(xlist, kv0)

SpecRbf == Init /\ [][NextRbf]_vars

\* ------------------------------ two instances, the file steps interleaved
Idle(e) == io[e].pc = "idle"

\* a call returns: what it read is forgotten, what it did is kept
Returned(x) == IoAt("idle", FALSE, 0, FALSE, x.lost, x.partial)

\* saveWMat(): the test of wDir and wW, the open for reading, the read of N
SaveRead(e) ==
    /\ st[e] = "ok" /\ Idle(e)
    /\ IF ~SaveAsked(wDir[e], wW[e])
       THEN /\ io' = [io EXCEPT ![e] = Returned([@ EXCEPT !.lost = 0])]
            /\ last' = Call("saveRead", e, <<>>, DIM[e], FALSE, "")
       ELSE IF FileOf(e) \notin DOMAIN files
       THEN /\ io' = [io EXCEPT ![e] = IoAt("decide", FALSE, 0, FALSE, 0, @.partial)]
            /\ last' = Call("saveRead", e, <<>>, DIM[e], TRUE, "")
       ELSE \E N \in ReadN(files[FileOf(e)]) :
            /\ io' = [io EXCEPT ![e] =
                        IoAt("decide", TRUE, N, Len(files[FileOf(e)]) = 0, 0, @.partial)]
            /\ last' = Call("saveRead", e, <<>>, DIM[e], TRUE, "")
    /\ UNCHANGED <<st, CHV, CD, DIM, wmat, wDir, wW, SK, snap, files, pure>>

\* the decision; return save when it is false
SaveDecide(e) ==
    /\ io[e].pc = "decide"
    /\ \E save \in {SaveDecides(DIM[e], io[e].found, io[e].N)} :
          /\ io' = [io EXCEPT ![e] = IF save THEN [@ EXCEPT !.pc = "trunc"] ELSE Returned(@)]
          /\ last' = Call("saveDecide", e, <<>>, DIM[e], save, "")
    /\ UNCHANGED <<st, CHV, CD, DIM, wmat, wDir, wW, SK, snap, files, pure>>

\* std::ofstream ofs(fname.c_str(),std::ios::out|std::ios::trunc|std::ios::binary)
SaveTrunc(e) ==
    /\ io[e].pc = "trunc"
    /\ files' = [f \in DOMAIN files \cup {FileOf(e)} |-> IF f = FileOf(e) THEN <<>> ELSE files[f]]
    /\ \E lost \in {IF FileOf(e) \in DOMAIN files /\ WholeRecord(files[FileOf(e)])
                        /\ StoredDim(e) > DIM[e]
                     THEN StoredDim(e) ELSE 0} :
          /\ io' = [io EXCEPT ![e] = [@ EXCEPT !.pc = "dim", !.lost = lost]]
          /\ last' = Call("saveTrunc", e, <<>>, DIM[e], lost, "")
    /\ UNCHANGED <<st, CHV, CD, DIM, wmat, wDir, wW, SK, snap, pure>>

\* ofs.write((char*)&_DIM,sizeof(_DIM))
SaveDim(e) ==
    /\ io[e].pc = "dim"
    /\ files' = [files EXCEPT ![FileOf(e)] = WriteAt(@, 1, <<DIM[e]>>)]
    /\ io' = [io EXCEPT ![e] = [@ EXCEPT !.pc = "cells"]]
    /\ last' = Call("saveDim", e, <<>>, DIM[e], <<>>, "")
    /\ UNCHANGED <<st, CHV, CD, DIM, wmat, wDir, wW, SK, snap, pure>>

\* the two loops of ofs.write((char*)&wmat[i][j],sizeof(wmat[i][j])), ofs.close(),
\* return save
SaveCells(e) ==
    /\ io[e].pc = "cells"
    /\ files' = [files EXCEPT ![FileOf(e)] = WriteAt(@, 2, RowMajor(wmat[e], DIM[e]))]
    /\ io' = [io EXCEPT ![e] = Returned(@)]
    /\ last' = Call("saveCells", e, <<>>, DIM[e], TRUE, "")
    /\ UNCHANGED <<st, CHV, CD, DIM, wmat, wDir, wW, SK, snap, pure>>

\* loadWMat(): the test of wDir, the open, the read of N, the test N>_DIM
LoadRead(e) ==
    /\ st[e] = "ok" /\ Idle(e)
    /\ IF wDir[e] = "" \/ FileOf(e) \notin DOMAIN files
       THEN /\ io' = [io EXCEPT ![e] = Returned([@ EXCEPT !.partial = FALSE])]
            /\ last' = Call("loadRead", e, <<>>, DIM[e], FALSE, "")
       ELSE \E N \in ReadN(files[FileOf(e)]) :
            /\ io' = [io EXCEPT ![e] =
                        IF LoadDecides(DIM[e], N)
                        THEN IoAt("read", TRUE, N, Len(files[FileOf(e)]) = 0, @.lost, FALSE)
                        ELSE Returned([@ EXCEPT !.partial = FALSE])]
            /\ last' = Call("loadRead", e, <<Len(files[FileOf(e)])>>, DIM[e], LoadDecides(DIM[e], N), "")
    /\ UNCHANGED <<st, CHV, CD, DIM, wmat, wDir, wW, SK, snap, files, pure>>

\* what the reads of the cells find: nothing once a read has failed
Readable(e) == IF io[e].failed THEN <<>> ELSE files[FileOf(e)]

\* _DIM=N, the resizes, the two loops of ifs.read((char*)&wmat[i][j],...),
\* return loaded
LoadCells(e) ==
    /\ io[e].pc = "read"
    /\ DIM' = [DIM EXCEPT ![e] = io[e].N]
    /\ wmat' = [wmat EXCEPT ![e] = ReadCells(Resize(wmat[e], io[e].N), Readable(e), io[e].N)]
    /\ \E partial \in {Len(Readable(e)) < 1 + io[e].N * io[e].N} :
          /\ io' = [io EXCEPT ![e] = Returned([@ EXCEPT !.partial = partial])]
          /\ last' = Call("loadCells", e, <<>>, DIM[e], partial, "")
    /\ UNCHANGED <<st, CHV, CD, wDir, wW, SK, snap, files, pure>>

\* a thread makes its calls one after the other
RaceExtend(e, dim) == Idle(e) /\ Extend(e, dim)

\* every instance is given the one directory, with the permission to write, once
RaceFolder(e) == Idle(e) /\ wDir[e] = "" /\ Folder(e, "cache", TRUE)

\* two instances with one pair of step costs and one directory; the file
\* steps of the two threads interleave
NextRace ==
    \/ \E e \in Eng, p \in GoodPairs : Construct(e, SKM, p[1], p[2])
    \/ \E e \in Eng, dim \in 1..MaxDim : RaceExtend(e, dim)
    \/ \E e \in Eng : RaceFolder(e)
    \/ \E e \in Eng : SaveRead(e)
    \/ \E e \in Eng : SaveDecide(e)
    \/ \E e \in Eng : SaveTrunc(e)
    \/ \E e \in Eng : SaveDim(e)
    \/ \E e \in Eng : SaveCells(e)
    \/ \E e \in Eng : LoadRead(e)
    \/ \E e \in Eng : LoadCells(e)

SpecRace == Init /\ [][NextRace]_vars

\* ------------------------------------------------- baisero::selectSigma
\* a list of sequences is given by the number of symbols of each sequence
SigmaLen == 3

SigmaSeqs == 2

SigmaLists == UNION { [1..n -> 1..SigmaLen] : n \in 1..SigmaSeqs }

SigmaN == {-1, 0, 1, 2}

\* N+=slist[i].size() over the list
RECURSIVE Symbols(_, _)
Symbols(lens, i) == IF i > Len(lens) THEN 0 ELSE lens[i] + Symbols(lens, i + 1)

\* std::floor(std::sqrt(N))
FloorSqrt(n) == CHOOSE r \in 0..n : r * r <= n /\ (r + 1) * (r + 1) > n

\* if(N<=0) { N=0; for(...) N+=slist[i].size(); N=std::floor(std::sqrt(N)); }
Iterations(lens, N) == IF N <= 0 THEN FloorSqrt(Symbols(lens, 1)) ELSE N

\* rand()%n
RandMod(n) == 0..(n - 1)

\* the call starts: std::vector<double> symDist(N) with the N that was passed
\* (a negative N asks for more than max_size() elements: length_error), then
\* the number of iterations
SigmaCall(lens, N) ==
    /\ last.op \notin {"sigmaCall", "sigmaIter"}
    /\ last' = IF N < 0
               THEN Call("sigmaThrow", 0, <<lens, N>>, 0, "length_error", "")
               ELSE Call("sigmaCall", 0, <<lens, Iterations(lens, N), 0, 0, 0, 0, 0>>, N, <<>>, "")
    /\ UNCHANGED <<st, CHV, CD, DIM, wmat, wDir, wW, SK, snap, io, files, pure>>

\* the call under way: its list, its number of iterations, the iterations done
SigmaList == last.arg[1]

SigmaTodo == last.arg[2]

SigmaDone == last.arg[3]

\* one iteration of the loop: sA, symA, sB and symB are drawn, slist[sA][symA]
\* and slist[sB][symB] are read, symDist[i] is written
SigmaIter(sA, symA, sB, symB) ==
    /\ last.op \in {"sigmaCall", "sigmaIter"}
    /\ SigmaDone < SigmaTodo
    /\ sA \in RandMod(Len(SigmaList))
    /\ symA \in RandMod(SigmaList[sA + 1])
    /\ sB \in RandMod(Len(SigmaList))
    /\ symB \in RandMod(SigmaList[sA + 1])
    /\ last' = Call("sigmaIter", 0, <<SigmaList, SigmaTodo, SigmaDone + 1, sA, symA, sB, symB>>,
                    last.old, <<>>, "")
    /\ UNCHANGED <<st, CHV, CD, DIM, wmat, wDir, wW, SK, snap, io, files, pure>>

\* what the iteration just made touched: the index written in symDist, and the
\* sequence and symbol indices read in slist
WrittenAt == SigmaDone - 1

ReadA == <<last.arg[4], last.arg[5]>>

ReadB == <<last.arg[6], last.arg[7]>>

InSymDist(i) == i < last.old

InList(c) == c[1] < Len(SigmaList) /\ c[2] < SigmaList[c[1] + 1]

\* an access outside symDist or outside a sequence is undefined: the call may
\* stop there, or go on
SigmaFault ==
    /\ last.op = "sigmaIter"
    /\ ~InSymDist(WrittenAt) \/ ~InList(ReadA) \/ ~InList(ReadB)
    /\ last' = Call("sigmaFault", 0, <<SigmaList, SigmaTodo>>, last.old, <<>>, "")
    /\ UNCHANGED <<st, CHV, CD, DIM, wmat, wDir, wW, SK, snap, io, files, pure>>

\* nth_element and return *median, median the middle of symDist
SigmaReturn ==
    /\ last.op \in {"sigmaCall", "sigmaIter"}
    /\ SigmaDone = SigmaTodo
    /\ last' = Call("sigmaReturn", 0, <<SigmaList, SigmaTodo>>, last.old, <<>>, "")
    /\ UNCHANGED <<st, CHV, CD, DIM, wmat, wDir, wW, SK, snap, io, files, pure>>

NextSigma ==
    \/ \E lens \in SigmaLists, N \in SigmaN : SigmaCall(lens, N)
    \/ \E sA \in RandMod(SigmaSeqs), symA \in RandMod(SigmaLen),
          sB \in RandMod(SigmaSeqs), symB \in RandMod(SigmaLen) :
          SigmaIter(sA, symA, sB, symB)
    \/ SigmaFault
    \/ SigmaReturn

SpecSigma == Init /\ [][NextSigma]_vars

\* ------------------------------------------- step costs that differ late
\* two diagonal step costs, 0.99999750000625 and 0.9999975000125, that differ
\* from the 12th significant digit on
NearPairs == { <<R(3, 10), R(400000, 400001)>>, <<R(3, 10), R(400001, 400002)>> }

\* the largest table these step costs are extended to
NearDim == 2

\* two instances side by side over one directory
NextNear ==
    \/ \E e \in Eng, p \in NearPairs : Construct(e, SKM, p[1], p[2])
    \/ \E e \in Eng, dim \in 1..NearDim : Extend(e, dim)
    \/ \E e \in Eng, f \in Dirs \ {""}, w \in BOOLEAN : Folder(e, f, w)
    \/ \E e \in Eng : Save(e)
    \/ \E e \in Eng : Load(e)

SpecNear == Init /\ [][NextNear]_vars

\* --------------------------------------------------- the kernel operators
\* the ground kernels an instance is built on
Kernels == {SKM, SKD}

\* sequences of symbols 0 and 1, of different lengths
EvalSeqs == {<<>>, <<0>>, <<0, 1>>, <<1, 1>>, <<1, 0, 0>>}

\* lists of sequences: empty, of one, of two, and one holding an empty sequence
EvalLists == { <<>>, << <<0, 1>> >>, << <<0>>, <<1, 0, 0>> >>, << <<1, 1>>, <<>> >> }

\* what the caller's output matrix holds before a call: nothing, or old values
KmOld == [i \in 0..1 |-> [j \in 0..1 |-> KBefore]]

KmBefore == {EmptyMat, KmOld}

\* what the caller's output vector holds before a call
KvOld == [i \in 0..1 |-> KBefore]

KvBefore == {EmptyMat, KvOld}

NextEval ==
    \/ \E e \in Solo, sk \in Kernels, p \in GoodPairs : Construct(e, sk, p[1], p[2])
    \/ \E e \in Solo, sk \in Kernels : ConstructDefault(e, sk)
    \/ \E e \in Solo, dim \in 0..MaxDim : Extend(e, dim)
    \/ \E e \in Solo, s \in EvalSeqs, t \in EvalSeqs : Pairwise(e, s, t)
    \/ \E e \in Solo, s \in EvalSeqs : Self(e, s)
    \/ \E e \in Solo, slist \in EvalLists, tlist \in EvalLists, km0 \in KmBefore :
          PairwiseMatrix(e, slist, tlist, km0)
    \/ \E e \in Solo, slist \in EvalLists, km0 \in KmBefore : SelfMatrix(e, slist, km0)
    \/ \E e \in Solo, slist \in EvalLists, kv0 \in KvBefore : SelfVector(e, slist, kv0)
    \/ \E e \in Solo : Destroy(e)

SpecEval == Init /\ [][NextEval]_vars

\* ------------------------------------------------------------- properties
Live(e) == st[e] = "ok"

Idx(D) == 0..(D - 1)

\* the operations that run updateWMat
Growing == {"extend", "pairwise", "self"}

\* C1: in every reachable state every cell of W satisfies the recurrence:
\* W[0][0]=1, W[i][0]=W[0][i]=CHV*W[i-1][0], W[i][i]=2*CHV*W[i-1][i]+CD*W[i-1][i-1],
\* W[i][j]=CHV*(W[i-1][j]+W[i][j-1])+CD*W[i-1][j-1] for i,j >= 1, i # j
C1_Recurrence ==
    \A e \in Eng : Live(e) =>
        /\ wmat[e][0][0] = One
        /\ \A i \in 1..(DIM[e] - 1) :
              /\ wmat[e][i][0] = RMul(CHV[e], wmat[e][i - 1][0])
              /\ wmat[e][0][i] = RMul(CHV[e], wmat[e][i - 1][0])
              /\ wmat[e][i][i] = RAdd(RMul(Two, RMul(CHV[e], wmat[e][i - 1][i])),
                                      RMul(CD[e], wmat[e][i - 1][i - 1]))
        /\ \A i \in 1..(DIM[e] - 1), j \in 1..(DIM[e] - 1) : i # j =>
              wmat[e][i][j] = RAdd(RMul(CHV[e], RAdd(wmat[e][i - 1][j], wmat[e][i][j - 1])),
                                  RMul(CD[e], wmat[e][i - 1][j - 1]))

\* a table of full size installed by a successful loadWMat
C1_Witness ==
    /\ last.op = "load"
    /\ last.ret = TRUE
    /\ DIM[last.e] = MaxDim

\* C2: an instance grown from construction by updateWMat calls alone, in any
\* number of steps, holds the table one updateWMat(n) builds from the 1x1 table
C2_IncrementalIsBatch ==
    \A e \in Eng : Live(e) /\ pure[e] =>
        /\ DIM[e] = updateWMat(CHV[e], CD[e], initWMat.wmat, initWMat.DIM, DIM[e]).DIM
        /\ wmat[e] = updateWMat(CHV[e], CD[e], initWMat.wmat, initWMat.DIM, DIM[e]).wmat

\* grown in at least two steps: 1 -> old >= 2 -> MaxDim, updateWMat calls only
C2_Witness ==
    /\ last.op = "extend"
    /\ pure[last.e]
    /\ last.old >= 2
    /\ DIM[last.e] > last.old

\* C3: W is symmetric and W[0][0] = 1 in every reachable state
C3_Symmetric ==
    \A e \in Eng : Live(e) =>
        /\ wmat[e][0][0] = One
        /\ \A i \in Idx(DIM[e]), j \in Idx(DIM[e]) : wmat[e][i][j] = wmat[e][j][i]

\* a table grown from 1x1 by a kernel evaluation
C3_Witness ==
    /\ last.op = "self"
    /\ last.old = 1
    /\ DIM[last.e] >= 2

\* C4: an updateWMat that grows the table leaves the old block as it was and
\* assigns every new cell (a cell the resize created stays 0 until assigned)
C4_OldBlockKept ==
    [][\A e \in Eng :
          Live(e) /\ last'.op \in Growing /\ last'.e = e /\ DIM'[e] > DIM[e] =>
              /\ \A i \in Idx(DIM[e]), j \in Idx(DIM[e]) : wmat'[e][i][j] = wmat[e][i][j]
              /\ \A i \in Idx(DIM'[e]), j \in Idx(DIM'[e]) :
                    (i >= DIM[e] \/ j >= DIM[e]) => wmat'[e][i][j] # Zero]_vars

\* updateWMat grew a table that already had inner cells
C4_Witness ==
    /\ last.op = "extend"
    /\ last.old >= 2
    /\ DIM[last.e] > last.old

\* C5: updateWMat(target) with target <= D, 0 included, changes neither W nor D
C5_NoOpBelowD ==
    [][\A e \in Eng :
          Live(e) /\ last'.op = "extend" /\ last'.e = e /\ last'.arg[1] <= DIM[e] =>
              /\ DIM'[e] = DIM[e]
              /\ wmat'[e] = wmat[e]]_vars

\* updateWMat(m) called with 1 <= m < D
C5_Witness ==
    /\ last.op = "extend"
    /\ last.arg[1] >= 1
    /\ last.arg[1] < last.old
    /\ DIM[last.e] = last.old

\* C6: D >= 1 and D never decreases: updateWMat(n) ends with D = max(old D, n),
\* pairwise(s,t) on non-empty inputs with D = max(old D, |s|, |t|), a successful
\* loadWMat with D = the stored dimension > old D; saveWMat, getWMat, folder and
\* a failed loadWMat leave D as it was
C6_DimMonotone ==
    /\ \A e \in Eng : Live(e) => DIM[e] >= 1
    /\ last.op \in {"extend", "pairwise", "self", "getWMat", "folder", "save", "load"} =>
          DIM[last.e] >= last.old
    /\ last.op = "extend" => DIM[last.e] = Max(last.old, last.arg[1])
    /\ last.op = "pairwise" /\ last.arg[1] # <<>> /\ last.arg[2] # <<>> =>
          DIM[last.e] = Max(last.old, Max(Len(last.arg[1]), Len(last.arg[2])))
    /\ last.op = "load" /\ last.ret =>
          DIM[last.e] = StoredDim(last.e) /\ DIM[last.e] > last.old
    /\ last.op = "load" /\ ~last.ret => DIM[last.e] = last.old
    /\ last.op \in {"getWMat", "folder", "save"} => DIM[last.e] = last.old

\* a loadWMat that did nothing because the stored table is smaller
C6_Witness ==
    /\ last.op = "load"
    /\ last.ret = FALSE
    /\ StoredDim(last.e) >= 1
    /\ StoredDim(last.e) < DIM[last.e]

C8_Construction ==
    /\ last.op = "construct" =>
          IF last.arg[1][1] <= 0 \/ last.arg[2][1] <= 0
          THEN /\ last.ret \in {ErrCHV, ErrCD}
               /\ st[last.e] = "failed"
          ELSE /\ last.ret = "ok"
               /\ st[last.e] = "ok"
               /\ CHV[last.e] = last.arg[1]
               /\ CD[last.e] = last.arg[2]
    /\ last.op = "default" =>
          /\ st[last.e] = "ok"
          /\ CHV[last.e] = CHV_def
          /\ CD[last.e] = CD_def
    /\ last.op \in {"construct", "default"} /\ st[last.e] = "ok" =>
          /\ DIM[last.e] = 1
          /\ wmat[last.e] = [i \in {0} |-> [j \in {0} |-> One]]
          /\ wDir[last.e] = ""
          /\ wW[last.e] = FALSE
    /\ \A e \in Eng : Live(e) => RPos(CHV[e]) /\ RPos(CD[e])

\* the constructor threw on the diagonal step cost
C8_Witness ==
    /\ last.op = "construct"
    /\ last.ret = ErrCD
    /\ st[last.e] = "failed"

\* the record saveWMat is to write: D, then the D x D cells in row-major order
IsRecordOf(rec, e) ==
    /\ Len(rec) = 1 + DIM[e] * DIM[e]
    /\ rec[1] = DIM[e]
    /\ \A i \in Idx(DIM[e]), j \in Idx(DIM[e]) : rec[2 + i * DIM[e] + j] = wmat[e][i][j]

SaveDue(e) == wDir[e] # "" /\ wW[e] /\ StoredDim(e) < DIM[e]

\* C9: saveWMat writes <<D, cells in row-major order>> and returns true exactly
\* when a directory is set, writing is permitted and no record of dimension >= D
\* exists; otherwise it returns false and leaves the files alone; it never
\* changes W or D
C9_Save ==
    [][\A e \in Eng : last'.op = "save" /\ last'.e = e =>
          /\ last'.ret = SaveDue(e)
          /\ SaveDue(e) =>
                /\ DOMAIN files' = DOMAIN files \cup {FileOf(e)}
                /\ IsRecordOf(files'[FileOf(e)], e)
                /\ \A f \in DOMAIN files \ {FileOf(e)} : files'[f] = files[f]
          /\ ~SaveDue(e) => files' = files
          /\ wmat'[e] = wmat[e]
          /\ DIM'[e] = DIM[e]]_vars

\* a full-size table was written
C9_Witness ==
    /\ last.op = "save"
    /\ last.ret = TRUE
    /\ DIM[last.e] = MaxDim
    /\ StoredDim(last.e) = MaxDim

LoadDue(e) == wDir[e] # "" /\ StoredDim(e) > DIM[e]

\* the main statement of C10: loadWMat installs the stored table and dimension
\* and returns true exactly when a directory is set and a record of dimension
\* > D exists; otherwise it returns false and changes nothing
LoadContract(e) ==
    /\ last'.ret = LoadDue(e)
    /\ LoadDue(e) =>
          /\ DIM'[e] = StoredDim(e)
          /\ DOMAIN wmat'[e] = Idx(StoredDim(e))
          /\ \A i \in Idx(StoredDim(e)) :
                /\ DOMAIN wmat'[e][i] = Idx(StoredDim(e))
                /\ \A j \in Idx(StoredDim(e)) :
                      wmat'[e][i][j] = files[FileOf(e)][2 + i * StoredDim(e) + j]
    /\ ~LoadDue(e) => wmat'[e] = wmat[e] /\ DIM'[e] = DIM[e]
    /\ files' = files

\* C10 as stated: the contract of loadWMat, and a loadWMat right after any
\* saveWMat of the same instance returns false and changes nothing
C10_AsStated ==
    [][\A e \in Eng : last'.op = "load" /\ last'.e = e =>
          /\ LoadContract(e)
          /\ last'.after \in {"save true", "save false"} =>
                last'.ret = FALSE /\ wmat'[e] = wmat[e] /\ DIM'[e] = DIM[e]]_vars

\* C10 amended: the contract of loadWMat, and a loadWMat right after a
\* saveWMat of the same instance that returned true returns false and changes
\* nothing
C10_Load ==
    [][\A e \in Eng : last'.op = "load" /\ last'.e = e =>
          /\ LoadContract(e)
          /\ last'.after = "save true" =>
                last'.ret = FALSE /\ wmat'[e] = wmat[e] /\ DIM'[e] = DIM[e]]_vars

\* a loadWMat right after a successful saveWMat of the same instance
C10_Witness ==
    /\ last.op = "load"
    /\ last.after = "save true"
    /\ DIM[last.e] >= 2

\* C11: when instance a has just saved its table and instance b, with the same
\* step costs and directory and a dimension <= a's, calls loadWMat, b ends
\* with the table and dimension a saved: loadWMat returns true and installs it
\* when b was smaller, and b's own table is already that table when equal
C11_RoundTrip ==
    [][\A a \in Eng : \A b \in Eng \ {a} :
          /\ last.op = "save" /\ last.e = a /\ last.ret
          /\ last'.op = "load" /\ last'.e = b
          /\ CHV[b] = CHV[a] /\ CD[b] = CD[a] /\ wDir[b] = wDir[a]
          /\ DIM[b] <= DIM[a]
          => /\ IsRecordOf(files[FileOf(a)], a)
             /\ DIM'[b] = DIM[a]
             /\ wmat'[b] = wmat[a]
             /\ last'.ret = (DIM[b] < DIM[a])]_vars

\* a smaller instance took over the full-size table another one had just saved
C11_Witness ==
    /\ last.op = "load"
    /\ last.after = "peer save true"
    /\ last.ret = TRUE
    /\ last.old < MaxDim
    /\ \E a \in Eng \ {last.e} :
          /\ Live(a)
          /\ DIM[a] = MaxDim
          /\ wmat[last.e] = wmat[a]

\* C12: whatever updateWMat, saveWMat and loadWMat calls the instances make,
\* a cache file is never removed and is only ever replaced by a record of
\* strictly larger dimension
C12_StoredDimGrows ==
    [][\A f \in DOMAIN files :
          /\ f \in DOMAIN files'
          /\ files'[f] = files[f] \/ files'[f][1] > files[f][1]]_vars

\* a record was replaced while another instance of the same step costs and
\* directory holds a table of the dimension stored before
C12_Witness ==
    /\ last.op = "save"
    /\ last.ret = TRUE
    /\ last.arg[1] >= 1
    /\ StoredDim(last.e) > last.arg[1]
    /\ \E b \in Eng \ {last.e} :
          /\ Live(b)
          /\ FileOf(b) = FileOf(last.e)
          /\ DIM[b] = last.arg[1]

\* the sum of the terms of a sequence of doubles
RECURSIVE RSum(_)
RSum(q) == IF Len(q) = 0 THEN Zero ELSE RAdd(RSum(SubSeq(q, 1, Len(q) - 1)), q[Len(q)])

\* the weight the claim attaches to the pair (i, j) of positions, from 0
MeanWeight(w, ls, lt, i, j) == RDiv(RAdd(w[i][j], w[ls - i - 1][lt - j - 1]), Two)

\* the sum over i < |s|, j < |t| of kernel(s_i, t_j) * MeanWeight(i, j)
MeanSum(sk, w, s, t) ==
    RSum([p \in 1..(Len(s) * Len(t)) |->
             RMul(sk[s[((p - 1) \div Len(t)) + 1]][t[((p - 1) % Len(t)) + 1]],
                  MeanWeight(w, Len(s), Len(t), (p - 1) \div Len(t), (p - 1) % Len(t)))])

C14_SelfIsPairwise ==
    last.op = "self" /\ last.arg[1] # <<>> =>
        last.ret = pairwise(CHV[last.e], CD[last.e], wmat[last.e], DIM[last.e], SK[last.e],
                            last.arg[1], last.arg[1], KBefore).k

\* k_PATH as the class documentation defines it: 0 on an empty sequence, else
\* k(s_1,t_1) + CHV k_PATH(s_2:,t) + CHV k_PATH(s,t_2:) + CD k_PATH(s_2:,t_2:)
RECURSIVE kPATH(_, _, _, _, _)
kPATH(chv, cd, sk, s, t) ==
    IF Len(s) = 0 \/ Len(t) = 0 THEN Zero
    ELSE RAdd(RAdd(sk[s[1]][t[1]], RMul(chv, kPATH(chv, cd, sk, Tail(s), t))),
              RAdd(RMul(chv, kPATH(chv, cd, sk, s, Tail(t))),
                   RMul(cd, kPATH(chv, cd, sk, Tail(s), Tail(t)))))

\* the documented alternative expression: the sum over i, j of
\* kernel(s_i, t_j) * W[i][j]
WeightSum(sk, w, s, t) ==
    RSum([p \in 1..(Len(s) * Len(t)) |->
             RMul(sk[s[((p - 1) \div Len(t)) + 1]][t[((p - 1) % Len(t)) + 1]],
                  w[(p - 1) \div Len(t)][(p - 1) % Len(t)])])

\* C15: operator()(s,t,k) on non-empty sequences, of equal or different
\* lengths, returns the recursively defined k_PATH(s,t), which is the sum
\* over i, j of kernel(s_i, t_j) * W[i][j]
C15_IsPathKernel ==
    last.op = "pairwise" /\ last.arg[1] # <<>> /\ last.arg[2] # <<>> =>
        /\ last.ret = kPATH(CHV[last.e], CD[last.e], SK[last.e], last.arg[1], last.arg[2])
        /\ last.ret = WeightSum(SK[last.e], wmat[last.e], last.arg[1], last.arg[2])

\* C16: operator()(slist,km) on a non-empty list leaves a |slist| x |slist|
\* symmetric matrix whose entry [i][j], diagonal included, is what
\* operator()(s,t,k) returns on slist[i] and slist[j]: the matrix
\* operator()(slist,slist,km) leaves
C16_SelfMatrixIsPairwise ==
    last.op = "selfMatrix" /\ last.arg[1] # <<>> =>
        /\ Thrown(last.ret) = ""
        /\ DOMAIN Output(last.ret) = Idx(Len(last.arg[1]))
        /\ \A i \in Idx(Len(last.arg[1])) :
              /\ DOMAIN Output(last.ret)[i] = Idx(Len(last.arg[1]))
              /\ \A j \in Idx(Len(last.arg[1])) :
                    /\ Output(last.ret)[i][j] = Output(last.ret)[j][i]
                    /\ last.arg[1][i + 1] # <<>> /\ last.arg[1][j + 1] # <<>> =>
                          Output(last.ret)[i][j] =
                              pairwise(CHV[last.e], CD[last.e], wmat[last.e], DIM[last.e],
                                       SK[last.e], last.arg[1][i + 1], last.arg[1][j + 1],
                                       KBefore).k
        /\ Output(last.ret) =
              pairwiseMatrix(CHV[last.e], CD[last.e], wmat[last.e], DIM[last.e], SK[last.e],
                             last.arg[1], last.arg[1], last.arg[2]).x.km

\* C17: each batched form throws when a list it is given is empty
C17_EmptyListThrows ==
    /\ last.op = "pairwiseMatrix" /\ (last.arg[1] = <<>> \/ last.arg[2] = <<>>) =>
          Thrown(last.ret) = ErrEmpty
    /\ last.op = "selfMatrix" /\ last.arg[1] = <<>> => Thrown(last.ret) = ErrEmpty
    /\ last.op = "selfVector" /\ last.arg[1] = <<>> => Thrown(last.ret) = ErrEmpty

\* C18: operator()(slist,tlist,km) on non-empty lists leaves km with |slist|
\* rows of |tlist| entries, each the kernel value of slist[i] and tlist[j]
\* (0 when one of the two is empty); no entry keeps the value km held before
C18_EveryEntrySet ==
    last.op = "pairwiseMatrix" /\ last.arg[1] # <<>> /\ last.arg[2] # <<>> =>
        /\ Thrown(last.ret) = ""
        /\ DOMAIN Output(last.ret) = Idx(Len(last.arg[1]))
        /\ \A i \in Idx(Len(last.arg[1])) :
              /\ DOMAIN Output(last.ret)[i] = Idx(Len(last.arg[2]))
              /\ \A j \in Idx(Len(last.arg[2])) :
                    /\ Output(last.ret)[i][j] =
                          MeanSum(SK[last.e], wmat[last.e], last.arg[1][i + 1], last.arg[2][j + 1])
                    /\ Output(last.ret)[i][j] # KBefore

\* C19: operator()(s,t,k) with s or t empty, and operator()(s,k) with s empty,
\* return with k as it was before the call and with W and D unchanged
C19_EmptyIsNoOp ==
    [][\A e \in Eng :
          \/ last'.op = "pairwise" /\ last'.e = e
                /\ (last'.arg[1] = <<>> \/ last'.arg[2] = <<>>)
          \/ last'.op = "self" /\ last'.e = e /\ last'.arg[1] = <<>>
          => /\ last'.ret = KBefore
             /\ wmat'[e] = wmat[e]
             /\ DIM'[e] = DIM[e]]_vars

\* an empty s against a t longer than the table
C19_Witness ==
    /\ last.op = "pairwise"
    /\ last.arg[1] = <<>>
    /\ Len(last.arg[2]) > last.old
    /\ DIM[last.e] = last.old
    /\ last.ret = KBefore

\* the file an instance addresses holds fewer cells than its dimension asks for
Truncated(e) ==
    /\ FileOf(e) \in DOMAIN files
    /\ Len(files[FileOf(e)]) < 1 + StoredDim(e) * StoredDim(e)

\* C20: a saveWMat that cannot create its file, and a loadWMat that finds a
\* record of dimension N > D with fewer than N x N cells, return false and
\* leave W and D as they were
C20_FailureIsNoOp ==
    [][\A e \in Eng :
          /\ last'.op = "save" /\ last'.e = e /\ wDir[e] = NoSuchDir /\ wW[e] =>
                /\ last'.ret = FALSE
                /\ wmat'[e] = wmat[e]
                /\ DIM'[e] = DIM[e]
          /\ last'.op = "load" /\ last'.e = e /\ Truncated(e) /\ StoredDim(e) > DIM[e] =>
                /\ last'.ret = FALSE
                /\ wmat'[e] = wmat[e]
                /\ DIM'[e] = DIM[e]]_vars

\* the table the recurrence defines for step costs chv, cd
IsTableOf(w, D, chv, cd) ==
    /\ w[0][0] = One
    /\ \A i \in 1..(D - 1) :
          /\ w[i][0] = RMul(chv, w[i - 1][0])
          /\ w[0][i] = w[i][0]
    /\ \A i \in 1..(D - 1), j \in 1..(D - 1) :
          w[i][j] = RAdd(RMul(chv, RAdd(w[i - 1][j], w[i][j - 1])), RMul(cd, w[i - 1][j - 1]))

\* C21: two instances with distinct (CHV, CD) address distinct files in the
\* same directory, and a table installed by loadWMat is the table of the
\* loading instance's own step costs
C21_DistinctRecords ==
    /\ \A a \in Eng, b \in Eng :
          Live(a) /\ Live(b) /\ <<CHV[a], CD[a]>> # <<CHV[b], CD[b]>> =>
              \A dir \in Dirs \ {""} : FName(dir, CHV[a], CD[a]) # FName(dir, CHV[b], CD[b])
    /\ last.op = "load" /\ last.ret =>
          IsTableOf(wmat[last.e], DIM[last.e], CHV[last.e], CD[last.e])

\* C22: the value of operator()(s,t,k) and of operator()(s,k) is the value a
\* newly constructed instance of the same step costs and ground kernel
\* returns, whatever updateWMat, loadWMat and evaluation calls came before
C22_HistoryFree ==
    /\ last.op = "pairwise" /\ last.arg[1] # <<>> /\ last.arg[2] # <<>> =>
          last.ret = pairwise(CHV[last.e], CD[last.e], initWMat.wmat, initWMat.DIM,
                              SK[last.e], last.arg[1], last.arg[2], KBefore).k
    /\ last.op = "self" /\ last.arg[1] # <<>> =>
          last.ret = self(CHV[last.e], CD[last.e], initWMat.wmat, initWMat.DIM,
                          SK[last.e], last.arg[1], KBefore).k

\* an evaluation right after loadWMat installed a table larger than both
\* sequences
C22_Witness ==
    /\ last.op = "pairwise"
    /\ last.after = "load true"
    /\ last.arg[1] # <<>>
    /\ last.arg[2] # <<>>
    /\ last.old > Max(Len(last.arg[1]), Len(last.arg[2]))

\* C23: getWMat returns a table equal to the current one and changes neither
\* W nor D; no later updateWMat or loadWMat changes a table getWMat returned
C23_SnapshotKept ==
    [][/\ last'.op = "getWMat" =>
             /\ last'.ret = wmat[last'.e]
             /\ last'.arg[1] => snap' = wmat[last'.e]
             /\ wmat'[last'.e] = wmat[last'.e]
             /\ DIM'[last'.e] = DIM[last'.e]
       /\ last'.op \in {"extend", "load"} => snap' = snap]_vars

\* the live table outgrew, through loadWMat, a snapshot taken when it already
\* had inner cells
C23_Witness ==
    /\ last.op = "load"
    /\ last.ret = TRUE
    /\ last.old >= 2
    /\ DOMAIN snap = Idx(last.old)
    /\ DIM[last.e] > last.old

\* C24: with CHV = 0.3 and CD = 0.4, extending a fresh instance to dimension 2
\* gives W = [[1, 0.3], [0.3, 0.58]], and with the identity kernel matrix and
\* s = t = (a, b) the pairwise value is 1.58
Scenario(e) == Live(e) /\ CHV[e] = R(3, 10) /\ CD[e] = R(4, 10)

ScenarioTable ==
    [i \in Idx(2) |-> [j \in Idx(2) |->
        IF i = 0 /\ j = 0 THEN R(1, 1) ELSE IF i = 1 /\ j = 1 THEN R(58, 100) ELSE R(3, 10)]]

C24_Scenario ==
    /\ last.op = "extend" /\ Scenario(last.e) /\ last.old = initWMat.DIM /\ last.arg = <<2>> =>
          DIM[last.e] = 2 /\ wmat[last.e] = ScenarioTable
    /\ last.op = "pairwise" /\ Scenario(last.e) /\ SK[last.e] = SKM /\ last.arg = << <<0, 1>>, <<0, 1>> >> =>
          last.ret = R(158, 100)

\* the pairwise call of the scenario, made on the table extend(2) built
C24_Witness ==
    /\ last.op = "pairwise" /\ Scenario(last.e) /\ SK[last.e] = SKM
    /\ last.arg = << <<0, 1>>, <<0, 1>> >>
    /\ last.old = 1
    /\ wmat[last.e] = ScenarioTable

\* C25: for a non-empty list of non-empty vectors of one length, RbfKernel's
\* vector form throws nothing and leaves kv with one entry per vector, the
\* value the single-input form gives for it; it throws only for an empty list,
\* an empty vector or vectors of unequal length
RbfGood(xlist) ==
    /\ Len(xlist) # 0
    /\ \A i \in 1..Len(xlist) : Len(xlist[i]) # 0 /\ Len(xlist[i]) = Len(xlist[1])

C25_VectorForm ==
    last.op = "rbfVector" =>
        /\ RbfGood(last.arg[1]) =>
              /\ Thrown(last.ret) = ""
              /\ Output(last.ret) =
                    [i \in 0..(Len(last.arg[1]) - 1) |-> rbfSelf(last.arg[1][i + 1], 0).k]
        /\ Thrown(last.ret) # "" => ~RbfGood(last.arg[1])

\* C26: with the file steps of two instances interleaved, a whole record of
\* larger dimension is replaced by one of smaller dimension, and a load installs
\* a table read from a record that is not written to its end (C26_Witness is
\* the state where both have happened); a save truncates a larger whole record
\* only after a decision taken on a read that no longer holds, and a load finds
\* an empty file only between the truncation and the first write of a save
C26_RaceByOverlap ==
    /\ \A e \in Eng :
          io[e].pc = "dim" /\ io[e].lost # 0 =>
              ~io[e].found \/ io[e].failed \/ io[e].N < io[e].lost
    /\ last.op = "loadRead" /\ io[last.e].failed =>
          \E b \in Eng \ {last.e} : io[b].pc = "dim"

C26_Witness ==
    /\ last.op = "saveCells"
    /\ io[last.e].lost > DIM[last.e]
    /\ WholeRecord(files[FileOf(last.e)])
    /\ StoredDim(last.e) = DIM[last.e]
    /\ \E a \in Eng \ {last.e} :
          /\ Live(a)
          /\ io[a].partial
          /\ FileOf(a) = FileOf(last.e)
          /\ ~IsTableOf(wmat[a], DIM[a], CHV[a], CD[a])

\* C27: with every call run to its end before the next, every record in the
\* cache has a dimension N >= 1 and holds the N x N table the recurrence
\* defines for its step costs, and a loadWMat that returns true changes no
\* cell W[i][j] with i, j < old D
RecordTable(f) == [i \in Idx(f[1]) |-> [j \in Idx(f[1]) |-> f[i * f[1] + j + 2]]]

ConsistentRecord(f, chv, cd) ==
    /\ f[1] >= 1
    /\ Len(f) = 1 + f[1] * f[1]
    /\ IsTableOf(RecordTable(f), f[1], chv, cd)

C27_CacheConsistent ==
    /\ [](\A e \in Eng, dir \in Dirs \ {""} :
             Live(e) /\ FName(dir, CHV[e], CD[e]) \in DOMAIN files =>
                 ConsistentRecord(files[FName(dir, CHV[e], CD[e])], CHV[e], CD[e]))
    /\ [][last'.op = "load" /\ last'.ret =>
             \A i \in Idx(DIM[last'.e]), j \in Idx(DIM[last'.e]) :
                 wmat'[last'.e][i][j] = wmat[last'.e][i][j]]_vars

\* a table with inner cells was replaced by the larger one another instance
\* wrote in the call before
C27_Witness ==
    /\ last.op = "load"
    /\ last.ret = TRUE
    /\ last.after = "peer save true"
    /\ last.old >= 2
    /\ StoredDim(last.e) = MaxDim

\* C28: for non-empty sequences s and t, of equal or different lengths, and a
\* symmetric ground kernel, the pairwise value of (s, t) is the value the same
\* instance gives for (t, s)
Symmetric(sk) == \A a \in DOMAIN sk : \A b \in DOMAIN sk : sk[a][b] = sk[b][a]

C28_PairwiseSymmetric ==
    [][last'.op = "pairwise" /\ last'.arg[1] # <<>> /\ last'.arg[2] # <<>>
       /\ Symmetric(SK[last'.e]) =>
          last'.ret = pairwise(CHV[last'.e], CD[last'.e], wmat[last'.e], DIM[last'.e],
                               SK[last'.e], last'.arg[2], last'.arg[1], KBefore).k]_vars

\* sequences of different lengths and symbols under the kernel with unequal
\* entries
C28_Witness ==
    /\ last.op = "pairwise"
    /\ last.arg = << <<0, 1>>, <<1, 0, 0>> >>
    /\ SK[last.e] = SKD
    /\ last.ret # Zero

\* C29: in a pairwise or self call on non-empty sequences every table index
\* read is below D as it is after the call's updateWMat, and every updateWMat
\* reads only cells of the old table or cells it has assigned before, and
\* assigns every cell of the new table
InOrder(old_dim, dim) ==
    /\ updateOrder(old_dim, dim).bad = {}
    /\ updateOrder(old_dim, dim).done = Cells(Max(old_dim, dim))

C29_ReadsAssigned ==
    /\ last.op = "extend" => InOrder(last.old, last.arg[1])
    /\ last.op = "pairwise" /\ last.arg[1] # <<>> /\ last.arg[2] # <<>> =>
          /\ InOrder(last.old, Max(Len(last.arg[1]), Len(last.arg[2])))
          /\ PairReads(Len(last.arg[1]), Len(last.arg[2])) \subseteq Cells(DIM[last.e])
    /\ last.op = "self" /\ last.arg[1] # <<>> =>
          /\ InOrder(last.old, Len(last.arg[1]))
          /\ SelfReads(Len(last.arg[1])) \subseteq Cells(DIM[last.e])

\* a pairwise call that had to grow the table before its sum read the last
\* row and column
C29_Witness ==
    /\ last.op = "pairwise"
    /\ Len(last.arg[1]) = MaxLen
    /\ Len(last.arg[2]) = MaxLen
    /\ last.old < MaxLen
    /\ DIM[last.e] = MaxLen
    /\ <<MaxLen - 1, MaxLen - 1>> \in PairReads(MaxLen, MaxLen)

\* C30: in selectSigma on a non-empty list of non-empty sequences, whatever N
\* is passed and whatever the random draws give, every symDist[i] written lies
\* within symDist and every symbol index read lies within its sequence
C30_SigmaInBounds ==
    last.op = "sigmaIter" => InSymDist(WrittenAt) /\ InList(ReadA) /\ InList(ReadB)

====
